---- MODULE Spec2Model ----
(***************************************************************************)
(* A model of mesonbuild/cmake/executor.py: class CMakeExecutor.           *)
(*                                                                         *)
(* State: the three class attributes (class_cmakebin, class_cmakevers,     *)
(* class_cmake_cache), the filesystem under the build directories, the     *)
(* executor instance the caller holds, and history variables that record   *)
(* what each operation did (candidates probed, process launched, files     *)
(* written).  The collaborators (Environment, ExternalProgram, Popen_safe) *)
(* are inputs: their answers are drawn from small sets in Init or by \E.   *)
(***************************************************************************)
EXTENDS Integers, Sequences, FiniteSets, TLC

VARIABLES
    environment,        \* the Environment passed to the constructors
    world,              \* what lies at each path: ExternalProgram.found(), the --version launch
    class_cmakebin,     \* CMakeExecutor.class_cmakebin   : PerMachine
    class_cmakevers,    \* CMakeExecutor.class_cmakevers  : PerMachine
    class_cmake_cache,  \* CMakeExecutor.class_cmake_cache: dict key -> (rc, out, err)
    fs,                 \* the filesystem: path -> content
    exe,                \* the CMakeExecutor instance the caller holds (self), or NoExe
    probed,             \* history: per machine, the candidates handed to check_cmake, in order
    served,             \* history: per cached request, what it returned first and its launches
    last,               \* history: what the last operation did and returned
    ncalls,             \* number of call / call_with_fake_build calls so far
    threads             \* per thread: where its constructor call stands, and its locals

vars == <<environment, world, class_cmakebin, class_cmakevers, class_cmake_cache,
          fs, exe, probed, served, last, ncalls, threads>>

-----------------------------------------------------------------------------
(* Bounds *)

MaxCalls == 2

-----------------------------------------------------------------------------
(* Python values *)

None == [k |-> "None"]
False == [k |-> "False"]
Str(toks) == [k |-> "str", s |-> toks]

\* truthiness of an Optional[str]: None and '' are falsy
Truthy(v) == v # None /\ v.s # <<>>

Machines == {"build", "host"}

-----------------------------------------------------------------------------
(* Text: a line is a sequence of tokens: a whitespace character, the literal
   label 'cmake version', or a word (here: a dotted version). *)

WS == " "
LBL == "cmake version"
VersionWords == {"3.9.0", "3.10.2"}

RECURSIVE lstrip(_)
lstrip(s) == IF s # <<>> /\ Head(s) = WS THEN lstrip(Tail(s)) ELSE s

RECURSIVE rstrip(_)
rstrip(s) == IF s # <<>> /\ s[Len(s)] = WS THEN rstrip(SubSeq(s, 1, Len(s) - 1)) ELSE s

\* str.strip()
strip(s) == rstrip(lstrip(s))

\* a token of `line` that a match of \s*cmake version\s* covers: the label, or
\* a whitespace that only whitespace separates from a label
InLabelMatch(line, i) ==
    \/ line[i] = LBL
    \/ /\ line[i] = WS
       /\ \E j \in 1..Len(line) :
            /\ line[j] = LBL
            /\ \A n \in 1..Len(line) :
                 ((i < n /\ n < j) \/ (j < n /\ n < i)) => line[n] = WS

RECURSIVE re_sub_from(_, _)
re_sub_from(line, i) ==
    IF i > Len(line) THEN <<>>
    ELSE (IF InLabelMatch(line, i) THEN <<>> ELSE <<line[i]>>) \o re_sub_from(line, i + 1)

\* re.sub(r'\s*cmake version\s*', '', line)
re_sub(line) == re_sub_from(line, 1)

-----------------------------------------------------------------------------
(* Versions *)

\* the numeric components of a dotted version
Components(w) ==
    CASE w = "3.4"    -> <<3, 4>>
      [] w = "3.9.0"  -> <<3, 9, 0>>
      [] w = "3.10"   -> <<3, 10>>
      [] w = "3.10.2" -> <<3, 10, 2>>
      [] OTHER        -> <<>>

RECURSIVE SeqGE(_, _)
\* component-wise a >= b; a missing component is older than any number
SeqGE(a, b) ==
    IF b = <<>> THEN TRUE
    ELSE IF a = <<>> THEN FALSE
    ELSE IF Head(a) # Head(b) THEN Head(a) > Head(b)
    ELSE SeqGE(Tail(a), Tail(b))

\* mesonlib.version_compare(vstr1, '>=' + minimum)
version_compare(vstr1, min_version) ==
    SeqGE(Components(vstr1.s[1]), Components(min_version))

MinVersions == {"3.4", "3.10"}

-----------------------------------------------------------------------------
(* The collaborators' answers *)

Paths == {"p1", "p2"}
NoEntry == "none"

\* what a path holds: found() of the ExternalProgram made from it, and how a
\* launch with --version ends (returncode, or the exception raised) and its stdout
Absent     == [found |-> FALSE, launch |-> "FileNotFoundError", out |-> <<>>]
Vanished   == [found |-> TRUE,  launch |-> "FileNotFoundError", out |-> <<>>]
NotAllowed == [found |-> TRUE,  launch |-> "PermissionError",   out |-> <<>>]
Failing    == [found |-> TRUE,  launch |-> "rc1", out |-> <<LBL, WS, "3.10.2">>]
Mute       == [found |-> TRUE,  launch |-> "rc0", out |-> <<WS, LBL, WS>>]
Old        == [found |-> TRUE,  launch |-> "rc0", out |-> <<LBL, WS, "3.9.0">>]
New        == [found |-> TRUE,  launch |-> "rc0", out |-> <<WS, LBL, WS, WS, "3.10.2", WS>>]

Programs == {Absent, Vanished, NotAllowed, Failing, Mute, Old, New}

\* ExternalProgram objects: the path, how search() built it, and the machine
\* whose search built it (objects of different searches are different objects)
Handle(p, via, m) == [k |-> "prog", path |-> p, via |-> via, id |-> m]

-----------------------------------------------------------------------------
(* Discovery: find_cmake_binary and its helpers *)

\* search() without the `return` after the configured entry: the defaults follow it
search_falls_back(env, m) ==
    (IF env.entry[m] # NoEntry THEN <<Handle(env.entry[m], "entry", m)>> ELSE <<>>)
    \o (IF env.matches_build_machine[m]
        THEN [i \in 1..Len(env.default_cmake) |-> Handle(env.default_cmake[i], "default", m)]
        ELSE <<>>)

\* search() without the matches_build_machine test: the defaults serve any machine
search_any_machine(env, m) ==
    IF env.entry[m] # NoEntry
    THEN <<Handle(env.entry[m], "entry", m)>>
    ELSE [i \in 1..Len(env.default_cmake) |-> Handle(env.default_cmake[i], "default", m)]

\* search() of find_cmake_binary: the candidates, in the order the generator
\* yields them (the loop below takes them one at a time and stops early)
search(env, m) ==
    IF env.entry[m] # NoEntry
    THEN <<Handle(env.entry[m], "entry", m)>>
    ELSE IF env.matches_build_machine[m]
         THEN [i \in 1..Len(env.default_cmake) |-> Handle(env.default_cmake[i], "default", m)]
         ELSE <<>>

\* check_cmake without the returncode test
check_cmake_ignores_returncode(w, cmakebin) ==
    LET prog == w[cmakebin.path] IN
    IF ~prog.found THEN None
    ELSE IF prog.launch \notin {"rc0", "rc1"} THEN None
    ELSE Str(strip(re_sub(prog.out)))

\* check_cmake: the version the candidate reports, or None
check_cmake(w, cmakebin) ==
    LET prog == w[cmakebin.path] IN
    IF ~prog.found THEN None
    ELSE IF prog.launch # "rc0" THEN None
    ELSE Str(strip(re_sub(prog.out)))

RECURSIVE probe_from_leaves_none(_, _, _)
\* the loop with an else branch that leaves the class attribute None
probe_from_leaves_none(w, cands, i) ==
    IF i > Len(cands) THEN [bin |-> None, vers |-> None, taken |-> Len(cands)]
    ELSE LET version_if_ok == check_cmake(w, cands[i]) IN
         IF ~Truthy(version_if_ok) THEN probe_from_leaves_none(w, cands, i + 1)
         ELSE [bin |-> cands[i], vers |-> version_if_ok, taken |-> i]

RECURSIVE probe_from_stops_at_rejection(_, _, _)
\* the loop with `break` where the code has `continue`
probe_from_stops_at_rejection(w, cands, i) ==
    IF i > Len(cands) THEN [bin |-> False, vers |-> None, taken |-> Len(cands)]
    ELSE LET version_if_ok == check_cmake(w, cands[i]) IN
         IF ~Truthy(version_if_ok) THEN [bin |-> False, vers |-> None, taken |-> i]
         ELSE [bin |-> cands[i], vers |-> version_if_ok, taken |-> i]

RECURSIVE probe_from_eager(_, _, _)
\* the loop over list(search()): every candidate is taken before the first test
probe_from_eager(w, cands, i) ==
    IF i > Len(cands) THEN [bin |-> False, vers |-> None, taken |-> Len(cands)]
    ELSE LET version_if_ok == check_cmake(w, cands[i]) IN
         IF ~Truthy(version_if_ok) THEN probe_from_eager(w, cands, i + 1)
         ELSE [bin |-> cands[i], vers |-> version_if_ok, taken |-> Len(cands)]

RECURSIVE probe_from(_, _, _)
\* the for ... else loop of find_cmake_binary over search(), from candidate i:
\* the record to store and the number of candidates taken from the generator
probe_from(w, cands, i) ==
    IF i > Len(cands) THEN [bin |-> False, vers |-> None, taken |-> Len(cands)]
    ELSE LET version_if_ok == check_cmake(w, cands[i]) IN
         IF ~Truthy(version_if_ok) THEN probe_from(w, cands, i + 1)
         ELSE [bin |-> cands[i], vers |-> version_if_ok, taken |-> i]

\* the cache test written as truthiness: False (not found) counts as not cached
is_cached_if_truthy(bin) == bin # None /\ bin # False

\* the branch of find_cmake_binary that skips the search: the class attribute
\* is False (searched, not found) or a program (searched, found)
is_cached(bin) == bin = False \/ bin # None

\* find_cmake_binary(for_machine): the new class attributes of the machine,
\* the candidates it handed to check_cmake, and the pair it returns
find_cmake_binary(env, w, bin, vers, m) ==
    IF is_cached(bin)
    THEN [bin |-> bin, vers |-> vers, probes |-> <<>>, searched |-> FALSE]
    ELSE LET cands == search(env, m)
             r == probe_from(w, cands, 1)
         IN [bin |-> r.bin, vers |-> r.vers,
             probes |-> SubSeq(cands, 1, r.taken), searched |-> TRUE]

\* __init__ after find_cmake_binary returned (bin, vers): the instance's
\* cmakebin, and the exception the constructor raises ("no": returns normally)
init_outcome(bin, vers, min_version) ==
    IF bin = False THEN [cmakebin |-> None, raised |-> "no"]
    \* version_compare(None, ...): no version to parse
    ELSE IF vers = None THEN [cmakebin |-> bin, raised |-> "TypeError"]
    ELSE IF ~version_compare(vers, min_version)
         \* self.cmakebin = None, then self.cmakebin.get_path() in the warning
         THEN [cmakebin |-> None, raised |-> "AttributeError"]
         ELSE [cmakebin |-> bin, raised |-> "no"]

NoExe == [k |-> "NoExe"]

\* a class attribute that is one slot for all machines
setitem_shared(per_machine, m, value) == [x \in DOMAIN per_machine |-> value]

\* CMakeExecutor.class_cmakebin[self.for_machine] = value, and class_cmakevers
setitem(per_machine, m, value) == [per_machine EXCEPT ![m] = value]

\* CMakeExecutor(environment, version, for_machine)
Construct(m, min_version) ==
    /\ LET r == find_cmake_binary(environment, world, class_cmakebin[m], class_cmakevers[m], m)
           o == init_outcome(r.bin, r.vers, min_version)
       IN /\ class_cmakebin' = setitem(class_cmakebin, m, r.bin)
          /\ class_cmakevers' = setitem(class_cmakevers, m, r.vers)
          /\ probed' = [probed EXCEPT ![m] = @ \o r.probes]
          /\ exe' = IF o.raised # "no" THEN exe
                    ELSE [k |-> "exe", for_machine |-> m, min_version |-> min_version,
                          cmakebin |-> o.cmakebin, cmakevers |-> r.vers]
          /\ last' = [op |-> "init", for_machine |-> m, min_version |-> min_version,
                      searched |-> r.searched, probes |-> r.probes,
                      bin |-> r.bin, vers |-> r.vers,
                      raised |-> o.raised, cmakebin |-> o.cmakebin]
    /\ UNCHANGED <<environment, world, class_cmake_cache, fs, served, ncalls, threads>>

\* found() of the instance the constructor returned
found(e) == e.cmakebin # None

-----------------------------------------------------------------------------
(* The constructor run by several threads, one read or write of a class *)
(* attribute per step                                                    *)

Threads == {"t1", "t2", "t3"}

\* a thread that has not called the constructor
NoThread ==
    [pc |-> "idle", for_machine |-> "build", min_version |-> "3.4", i |-> 0,
     searched |-> FALSE, potential_cmakebin |-> None, version_if_ok |-> None,
     probes |-> <<>>, bin |-> None, vers |-> None, raised |-> "no", cmakebin |-> None]

\* the thread calls CMakeExecutor(environment, version, for_machine)
T_Start(t, m, min_version) ==
    /\ threads[t].pc = "idle"
    /\ threads' = [threads EXCEPT ![t] = [NoThread EXCEPT !.pc = "test_false",
                                             !.for_machine = m,
                                             !.min_version = min_version]]
    /\ UNCHANGED <<environment, world, class_cmakebin, class_cmakevers, class_cmake_cache,
                   fs, exe, probed, served, last, ncalls>>

\* `if CMakeExecutor.class_cmakebin[self.for_machine] is False:`
T_TestFalse(t) ==
    /\ threads[t].pc = "test_false"
    /\ threads' = [threads EXCEPT ![t].pc =
                      IF class_cmakebin[threads[t].for_machine] = False
                      THEN "return_bin" ELSE "test_none"]
    /\ UNCHANGED <<environment, world, class_cmakebin, class_cmakevers, class_cmake_cache,
                   fs, exe, probed, served, last, ncalls>>

\* `elif CMakeExecutor.class_cmakebin[self.for_machine] is not None:`
T_TestNone(t) ==
    /\ threads[t].pc = "test_none"
    /\ threads' = [threads EXCEPT ![t].pc =
                      IF class_cmakebin[threads[t].for_machine] # None
                      THEN "return_bin" ELSE "assert"]
    /\ UNCHANGED <<environment, world, class_cmakebin, class_cmakevers, class_cmake_cache,
                   fs, exe, probed, served, last, ncalls>>

\* `assert CMakeExecutor.class_cmakebin[self.for_machine] is None`; under
\* python -O the statement is compiled away
T_Assert(t) ==
    /\ threads[t].pc = "assert"
    /\ \E optimized \in BOOLEAN :
         threads' = [threads EXCEPT ![t] =
                       IF optimized \/ class_cmakebin[threads[t].for_machine] = None
                       THEN [@ EXCEPT !.pc = "loop", !.i = 1, !.searched = TRUE]
                       ELSE [@ EXCEPT !.pc = "done", !.raised = "AssertionError"]]
    /\ UNCHANGED <<environment, world, class_cmakebin, class_cmakevers, class_cmake_cache,
                   fs, exe, probed, served, last, ncalls>>

\* one turn of `for potential_cmakebin in search():`, or its else branch when
\* the generator is exhausted
T_Probe(t) ==
    /\ threads[t].pc = "loop"
    /\ LET self == threads[t]
           cands == search(environment, self.for_machine)
       IN IF self.i > Len(cands)
          THEN /\ threads' = [threads EXCEPT ![t] =
                                 [@ EXCEPT !.pc = "store_bin", !.potential_cmakebin = False,
                                           !.version_if_ok = None]]
               /\ probed' = probed
          ELSE LET version_if_ok == check_cmake(world, cands[self.i]) IN
               /\ probed' = [probed EXCEPT ![self.for_machine] = Append(@, cands[self.i])]
               /\ threads' = [threads EXCEPT ![t] =
                    IF ~Truthy(version_if_ok)
                    THEN [@ EXCEPT !.i = @ + 1, !.probes = Append(@, cands[self.i])]
                    ELSE [@ EXCEPT !.pc = "store_bin", !.probes = Append(@, cands[self.i]),
                                   !.potential_cmakebin = cands[self.i],
                                   !.version_if_ok = version_if_ok]]
    /\ UNCHANGED <<environment, world, class_cmakebin, class_cmakevers, class_cmake_cache,
                   fs, exe, served, last, ncalls>>

\* the two stores with the version slot written before the binary slot
T_Store_version_first(t) ==
    /\ threads[t].pc \in {"store_bin", "store_vers"}
    /\ LET self == threads[t] IN
       IF self.pc = "store_bin"
       THEN /\ class_cmakevers' = setitem(class_cmakevers, self.for_machine, self.version_if_ok)
            /\ class_cmakebin' = class_cmakebin
            /\ threads' = [threads EXCEPT ![t].pc = "store_vers"]
       ELSE /\ class_cmakebin' = setitem(class_cmakebin, self.for_machine, self.potential_cmakebin)
            /\ class_cmakevers' = class_cmakevers
            /\ threads' = [threads EXCEPT ![t].pc = "return_bin"]
    /\ UNCHANGED <<environment, world, class_cmake_cache, fs, exe, probed, served, last, ncalls>>

\* `CMakeExecutor.class_cmakebin[self.for_machine] = ...` and then
\* `CMakeExecutor.class_cmakevers[self.for_machine] = ...`, of the loop body
\* or of the else branch
T_Store(t) ==
    /\ threads[t].pc \in {"store_bin", "store_vers"}
    /\ LET self == threads[t] IN
       IF self.pc = "store_bin"
       THEN /\ class_cmakebin' = setitem(class_cmakebin, self.for_machine, self.potential_cmakebin)
            /\ class_cmakevers' = class_cmakevers
            /\ threads' = [threads EXCEPT ![t].pc = "store_vers"]
       ELSE /\ class_cmakevers' = setitem(class_cmakevers, self.for_machine, self.version_if_ok)
            /\ class_cmakebin' = class_cmakebin
            /\ threads' = [threads EXCEPT ![t].pc = "return_bin"]
    /\ UNCHANGED <<environment, world, class_cmake_cache, fs, exe, probed, served, last, ncalls>>

\* `return CMakeExecutor.class_cmakebin[...], CMakeExecutor.class_cmakevers[...]`:
\* the two elements of the tuple are read one after the other
T_Return(t) ==
    /\ threads[t].pc \in {"return_bin", "return_vers"}
    /\ LET self == threads[t] IN
       threads' = [threads EXCEPT ![t] =
                     IF self.pc = "return_bin"
                     THEN [@ EXCEPT !.pc = "return_vers", !.bin = class_cmakebin[self.for_machine]]
                     ELSE [@ EXCEPT !.pc = "init", !.vers = class_cmakevers[self.for_machine]]]
    /\ UNCHANGED <<environment, world, class_cmakebin, class_cmakevers, class_cmake_cache,
                   fs, exe, probed, served, last, ncalls>>

\* the rest of __init__ on the pair find_cmake_binary returned
T_Init(t) ==
    /\ threads[t].pc = "init"
    /\ LET self == threads[t]
           o == init_outcome(self.bin, self.vers, self.min_version)
       IN threads' = [threads EXCEPT ![t] =
                        [@ EXCEPT !.pc = "done", !.raised = o.raised, !.cmakebin = o.cmakebin]]
    /\ UNCHANGED <<environment, world, class_cmakebin, class_cmakevers, class_cmake_cache,
                   fs, exe, probed, served, last, ncalls>>

-----------------------------------------------------------------------------
(* The filesystem: a path is a tuple of components *)

Dirs == {"b1", "b2"}
MARKER == "CMAKE_PLATFORM_INFO_INITIALIZED:INTERNAL=1"
C_STUB == "set(CMAKE_C_COMPILER ...) set(CMAKE_SIZEOF_VOID_P ...)"
CXX_STUB == "set(CMAKE_CXX_COMPILER ...) set(CMAKE_SIZEOF_VOID_P ...)"
FOREIGN == "written by something else"

\* '{}/CMakeCache.txt'.format(build_dir)
marker_path(build_dir) == <<build_dir, "CMakeCache.txt">>
\* '{}/CMakeFiles/{}'.format(build_dir, self.cmakevers)
comp_dir_path(build_dir, cmakevers) == <<build_dir, "CMakeFiles">> \o cmakevers.s
\* '{}/CMakeCCompiler.cmake'.format(comp_dir)
c_comp_path(comp_dir) == comp_dir \o <<"CMakeCCompiler.cmake">>
\* '{}/CMakeCXXCompiler.cmake'.format(comp_dir)
cxx_comp_path(comp_dir) == comp_dir \o <<"CMakeCXXCompiler.cmake">>

FsPaths ==
    UNION { {<<d>>, marker_path(d), <<d, "CMakeFiles">>} : d \in Dirs }
    \cup UNION { {comp_dir_path(d, Str(<<v>>)),
                  c_comp_path(comp_dir_path(d, Str(<<v>>))),
                  cxx_comp_path(comp_dir_path(d, Str(<<v>>)))} : d \in Dirs, v \in VersionWords }

\* a path holds its content c and, as history, the number w of times it was
\* opened for writing
NoFile == [c |-> "absent", w |-> 0]

\* os.path.exists
exists(fsys, p) == fsys[p].c # "absent"

\* os.makedirs(p, exist_ok=True): p and every missing parent become directories
makedirs(fsys, p) ==
    [q \in DOMAIN fsys |->
        IF Len(q) <= Len(p) /\ q = SubSeq(p, 1, Len(q)) /\ ~exists(fsys, q)
        THEN [fsys[q] EXCEPT !.c = "dir"] ELSE fsys[q]]

\* a file opened with mode 'a': the text goes after what the file holds
write_append(fsys, p, text) ==
    [fsys EXCEPT ![p] = [c |-> IF @.c = "absent" THEN text ELSE @.c \o text, w |-> @.w + 1]]

\* with open(p, 'w') as fp: fp.write(text)
write(fsys, p, text) == [fsys EXCEPT ![p] = [c |-> text, w |-> @.w + 1]]

-----------------------------------------------------------------------------
(* Invocation: _cache_key, _call_real, call, call_with_fake_build *)

Dict(items) == [k |-> "dict", items |-> items]
KV1 == <<"CC", "gcc">>
KV2 == <<"LANG", "C">>
os_environ == Dict(<<KV1, KV2>>)
Envs == {None, Dict(<<KV1, KV2>>), Dict(<<KV2, KV1>>), Dict(<<KV1>>)}

Args == {<<"--version">>, <<"--trace", ".">>}

\* the (args, build_dir, env) a caller passes: one request, and the requests
\* that differ from it in one component
Requests ==
    { <<a, d, e>> \in Args \X Dirs \X Envs :
        \/ (a = <<"--version">> /\ d = "b1")
        \/ (a = <<"--version">> /\ e = None)
        \/ (d = "b1" /\ e = None) }

\* what Popen_safe can return for a launch: (returncode, stdout, stderr)
Results == {[rc |-> 0, out |-> "-- Configuring done", err |-> ""],
            [rc |-> 1, out |-> "", err |-> "CMake Error"]}

\* a key that keeps the environment as the ordered items of the dict
_cache_key_ordered(cmakebin, args, build_dir, env) ==
    LET fenv == IF env # None THEN [k |-> "tuple", items |-> env.items] ELSE None
        targs == args
    IN [bin |-> cmakebin, targs |-> targs, build_dir |-> build_dir, fenv |-> fenv]

\* _cache_key(args, build_dir, env)
_cache_key(cmakebin, args, build_dir, env) ==
    LET fenv == IF env # None
                THEN [k |-> "frozenset", items |-> {env.items[i] : i \in 1..Len(env.items)}]
                ELSE None
        targs == args
    IN [bin |-> cmakebin, targs |-> targs, build_dir |-> build_dir, fenv |-> fenv]

\* a store that keeps only successful results
cache_store_only_success(cache, key, ret) ==
    IF ret.rc = 0 THEN (key :> ret) @@ cache ELSE cache

\* cache[key] = ... of call
cache_store(cache, key, ret) == (key :> ret) @@ cache

\* _call_real: the directory is made, the process runs and returns res
_call_real(fsys, build_dir, res) ==
    [fs |-> makedirs(fsys, build_dir), ret |-> res]

\* call without the `if disable_cache:` branch
bypasses_never(disable_cache) == FALSE

\* `if disable_cache:` of call
bypasses(disable_cache) == disable_cache

\* call without the `if key not in cache:` test: every call launches and stores
call_always_stores(self, cache, fsys, args, build_dir, env0, disable_cache, res) ==
    LET env == IF env0 = None THEN os_environ ELSE env0
        real == _call_real(fsys, build_dir, res)
        key == _cache_key(self.cmakebin, args, build_dir, env)
    IN IF bypasses(disable_cache)
       THEN [cache |-> cache, fs |-> real.fs, ret |-> real.ret, executed |-> TRUE]
       ELSE [cache |-> cache_store(cache, key, real.ret), fs |-> real.fs,
             ret |-> real.ret, executed |-> TRUE]

\* call(args, build_dir, env, disable_cache), res being what a launch returns:
\* the new cache and filesystem, the value returned, whether a process ran
call(self, cache, fsys, args, build_dir, env0, disable_cache, res) ==
    LET env == IF env0 = None THEN os_environ ELSE env0
        real == _call_real(fsys, build_dir, res)
        key == _cache_key(self.cmakebin, args, build_dir, env)
    IN IF bypasses(disable_cache)
       THEN [cache |-> cache, fs |-> real.fs, ret |-> real.ret, executed |-> TRUE]
       ELSE IF key \notin DOMAIN cache
            THEN LET stored == cache_store(cache, key, real.ret)
                 IN [cache |-> stored, fs |-> real.fs,
                     ret |-> IF key \in DOMAIN stored THEN stored[key] ELSE real.ret,
                     executed |-> TRUE]
            ELSE [cache |-> cache, fs |-> fsys, ret |-> cache[key], executed |-> FALSE]

\* the marker written under an existence test, as the stubs are
write_marker_if_missing(fsys, p) == IF ~exists(fsys, p) THEN write(fsys, p, MARKER) ELSE fsys

\* the marker of call_with_fake_build: opened for writing whatever is there
write_marker(fsys, p) == write(fsys, p, MARKER)

\* a stub written without the existence test
write_stub_always(fsys, p, text) == write(fsys, p, text)

\* `if not os.path.exists(c_comp):` and the write under it
write_stub(fsys, p, text) == IF ~exists(fsys, p) THEN write(fsys, p, text) ELSE fsys

\* history: the paths opened for writing between two filesystems, and those
\* of them that existed before
Opened(f, g) == {p \in DOMAIN f : g[p].w > f[p].w}
Overwritten(f, g) == {p \in Opened(f, g) : exists(f, p)}
Created(f, g) == {p \in DOMAIN f : ~exists(f, p) /\ exists(g, p)}

\* history: a request as the caller states it, and the bookkeeping of the
\* requests that went through the cache (disable_cache unset)
Request(cmakebin, args, build_dir, env) ==
    [bin |-> cmakebin, args |-> args, build_dir |-> build_dir, env |-> env]

Serve(srv, req, ret, executed) ==
    LET n == IF executed THEN 1 ELSE 0 IN
    IF req \in DOMAIN srv
    THEN [srv EXCEPT ![req].runs = @ + n]
    ELSE (req :> [ret |-> ret, runs |-> n]) @@ srv

\* call_with_fake_build ending with self._call_real instead of self.call
call_with_fake_build_uncached(self, cache, fsys, args, build_dir, env, res) ==
    LET key == _cache_key(self.cmakebin, args, build_dir, env)
        comp_dir == comp_dir_path(build_dir, self.cmakevers)
        fs1 == makedirs(fsys, build_dir)
        fs2 == write_marker(fs1, marker_path(build_dir))
        fs3 == makedirs(fs2, comp_dir)
        fs4 == write_stub(fs3, c_comp_path(comp_dir), C_STUB)
        fs5 == write_stub(fs4, cxx_comp_path(comp_dir), CXX_STUB)
        c == call(self, cache, fs5, args, build_dir, env, TRUE, res)
    IN IF key \in DOMAIN cache
       THEN [cache |-> cache, fs |-> fsys, ret |-> cache[key], executed |-> FALSE,
             staged |-> FALSE]
       ELSE [cache |-> c.cache, fs |-> c.fs, ret |-> c.ret, executed |-> c.executed,
             staged |-> TRUE]

\* call_with_fake_build(args, build_dir, env): as call, and whether it went on
\* to stage the directory
call_with_fake_build(self, cache, fsys, args, build_dir, env, res) ==
    LET key == _cache_key(self.cmakebin, args, build_dir, env)
        comp_dir == comp_dir_path(build_dir, self.cmakevers)
        c_comp == c_comp_path(comp_dir)
        cxx_comp == cxx_comp_path(comp_dir)
        fs1 == makedirs(fsys, build_dir)
        fs2 == write_marker(fs1, marker_path(build_dir))
        fs3 == makedirs(fs2, comp_dir)
        fs4 == write_stub(fs3, c_comp, C_STUB)
        fs5 == write_stub(fs4, cxx_comp, CXX_STUB)
        c == call(self, cache, fs5, args, build_dir, env, FALSE, res)
    IN IF key \in DOMAIN cache
       THEN [cache |-> cache, fs |-> fsys, ret |-> cache[key], executed |-> FALSE,
             staged |-> FALSE]
       ELSE [cache |-> c.cache, fs |-> c.fs, ret |-> c.ret, executed |-> c.executed,
             staged |-> TRUE]

\* exe.call(args, build_dir, env, disable_cache); the caller guards with found()
Call(args, build_dir, env, disable_cache, res) ==
    /\ ncalls < MaxCalls
    /\ exe # NoExe /\ found(exe)
    /\ LET c == call(exe, class_cmake_cache, fs, args, build_dir, env, disable_cache, res)
       IN /\ class_cmake_cache' = c.cache
          /\ fs' = c.fs
          /\ served' = IF disable_cache THEN served
                       ELSE Serve(served, Request(exe.cmakebin, args, build_dir, env),
                                  c.ret, c.executed)
          /\ last' = [op |-> "call", args |-> args, build_dir |-> build_dir, env |-> env,
                      disable_cache |-> disable_cache, cmakebin |-> exe.cmakebin,
                      cmakevers |-> exe.cmakevers,
                      ret |-> c.ret, executed |-> c.executed,
                      launch |-> IF c.executed THEN res ELSE None,
                      staged |-> FALSE,
                      opened |-> Opened(fs, c.fs), overwritten |-> Overwritten(fs, c.fs),
                      created |-> Created(fs, c.fs),
                      again |-> Request(exe.cmakebin, args, build_dir, env) \in DOMAIN served]
    /\ ncalls' = ncalls + 1
    /\ UNCHANGED <<environment, world, class_cmakebin, class_cmakevers, exe, probed, threads>>

\* exe.call_with_fake_build(args, build_dir, env); the caller guards with found()
CallWithFakeBuild(args, build_dir, env, res) ==
    /\ ncalls < MaxCalls
    /\ exe # NoExe /\ found(exe)
    /\ LET c == call_with_fake_build(exe, class_cmake_cache, fs, args, build_dir, env, res)
       IN /\ class_cmake_cache' = c.cache
          /\ fs' = c.fs
          /\ served' = Serve(served, Request(exe.cmakebin, args, build_dir, env),
                              c.ret, c.executed)
          /\ last' = [op |-> "call_with_fake_build", args |-> args, build_dir |-> build_dir,
                      env |-> env, disable_cache |-> FALSE, cmakebin |-> exe.cmakebin,
                      cmakevers |-> exe.cmakevers,
                      ret |-> c.ret, executed |-> c.executed,
                      launch |-> IF c.executed THEN res ELSE None,
                      staged |-> c.staged,
                      opened |-> Opened(fs, c.fs), overwritten |-> Overwritten(fs, c.fs),
                      created |-> Created(fs, c.fs),
                      again |-> Request(exe.cmakebin, args, build_dir, env) \in DOMAIN served]
    /\ ncalls' = ncalls + 1
    /\ UNCHANGED <<environment, world, class_cmakebin, class_cmakevers, exe, probed, threads>>

-----------------------------------------------------------------------------
(* Initial states and specifications *)

\* the Environment objects: the machine files' entry for cmake per machine,
\* whether the machine is the build machine, the default candidates
Environments ==
    { [entry |-> e, matches_build_machine |-> [build |-> TRUE, host |-> h],
       default_cmake |-> <<"p1", "p2">>] :
      e \in [Machines -> Paths \cup {NoEntry}], h \in BOOLEAN }

EmptyFs == [p \in FsPaths |-> NoFile]

\* a build directory left by an earlier run of another tool
StaleFs ==
    [p \in FsPaths |->
        IF p \in {<<"b1">>, <<"b1", "CMakeFiles">>, <<"b1", "CMakeFiles", "3.9.0">>}
        THEN [c |-> "dir", w |-> 0]
        ELSE IF p \in {marker_path("b1"), c_comp_path(<<"b1", "CMakeFiles", "3.9.0">>)}
             THEN [c |-> FOREIGN, w |-> 0]
             ELSE NoFile]

InitState ==
    /\ class_cmakebin = [m \in Machines |-> None]
    /\ class_cmakevers = [m \in Machines |-> None]
    /\ class_cmake_cache = [x \in {} |-> None]
    /\ exe = NoExe
    /\ probed = [m \in Machines |-> <<>>]
    /\ served = [x \in {} |-> None]
    /\ last = [op |-> "none"]
    /\ ncalls = 0
    /\ threads = [t \in Threads |-> NoThread]

\* discovery over every environment and every content of the candidate paths
InitDiscovery ==
    /\ environment \in Environments
    /\ world \in [Paths -> Programs]
    /\ fs = EmptyFs
    /\ InitState

NextDiscovery == \E m \in Machines, v \in MinVersions : Construct(m, v)

SpecDiscovery == InitDiscovery /\ [][NextDiscovery]_vars

\* the whole class, where p1 holds an old cmake and p2 a new one
Init ==
    /\ environment \in {e \in Environments :
                          /\ e.entry["build"] = NoEntry
                          /\ e.entry["host"] = "p2"
                          /\ e.matches_build_machine["host"]}
    /\ world = [p \in Paths |-> IF p = "p1" THEN Old ELSE New]
    /\ fs = StaleFs
    /\ InitState

Next ==
    \/ \E m \in Machines, v \in MinVersions : Construct(m, v)
    \/ \E q \in Requests, b \in BOOLEAN, r \in Results : Call(q[1], q[2], q[3], b, r)
    \/ \E q \in Requests, r \in Results : CallWithFakeBuild(q[1], q[2], q[3], r)

Spec == Init /\ [][Next]_vars

\* the constructors called from threads, where both machines fall back on the
\* defaults and each default either fails or is a new cmake
InitThreads ==
    /\ environment \in {e \in Environments :
                          /\ \A m \in Machines : e.entry[m] = NoEntry
                          /\ e.matches_build_machine["host"]}
    /\ world \in [Paths -> {Failing, New}]
    /\ fs = EmptyFs
    /\ InitState

NextThreads ==
    \E t \in Threads :
        \/ \E m \in Machines, v \in MinVersions : T_Start(t, m, v)
        \/ T_TestFalse(t)
        \/ T_TestNone(t)
        \/ T_Assert(t)
        \/ T_Probe(t)
        \/ T_Store(t)
        \/ T_Return(t)
        \/ T_Init(t)

SpecThreads == InitThreads /\ [][NextThreads]_vars

-----------------------------------------------------------------------------
(* Discovery claims, checked under SpecDiscovery *)

\* a construction for machine m has just returned or raised
Constructed(m) == last.op = "init" /\ last.for_machine = m

\* the candidate at path p passes the Version Gate: it is found, its version
\* query exits 0 and its banner names a version
Usable(p) ==
    /\ world[p].found
    /\ world[p].launch = "rc0"
    /\ \E i \in 1..Len(world[p].out) : world[p].out[i] \in VersionWords

\* the version the banner of p names
Reported(p) ==
    Str(<<CHOOSE v \in VersionWords : \E i \in 1..Len(world[p].out) : world[p].out[i] = v>>)

\* the discovery record of m
Unresolved(m) == class_cmakebin[m] = None /\ class_cmakevers[m] = None
ConfirmedAbsent(m) == class_cmakebin[m] = False /\ class_cmakevers[m] = None
Resolved(m) ==
    /\ class_cmakebin[m].k = "prog"
    /\ class_cmakevers[m].k = "str"
    /\ class_cmakevers[m].s # <<>>

\* C1: once the record of a machine is Resolved or ConfirmedAbsent, a later
\* construction for that machine, with any minimum version, runs no search and
\* no check_cmake (nothing is added to the probe history) and gets the stored
\* (binary, version) pair back; the search runs only from Unresolved
C1_DiscoveryRunsOnce ==
    [][\A m \in Machines :
         (last' # last /\ Constructed(m)') =>
            /\ last'.searched => Unresolved(m)
            /\ ~Unresolved(m) =>
                 /\ ~last'.searched
                 /\ last'.probes = <<>>
                 /\ probed'[m] = probed[m]
                 /\ last'.bin = class_cmakebin[m]
                 /\ last'.vers = class_cmakevers[m]]_vars

\* a second construction for a machine whose search found nothing, where a
\* candidate was probed the first time: nothing was probed again
C1_Witness ==
    \E m \in Machines :
        /\ Constructed(m) /\ ~last.searched
        /\ ConfirmedAbsent(m) /\ Len(probed[m]) > 0

\* C2 as stated: the candidate that becomes the record has a version that
\* satisfies the minimum of the caller whose construction ran the search
C2_AcceptedMeetsFirstMinimum ==
    (last.op = "init" /\ last.searched /\ last.bin # False)
        => version_compare(last.vers, last.min_version)

\* the first candidate of the search of m, in order, that passes the Version
\* Gate (0: none does)
FirstUsable(m) ==
    LET cands == search(environment, m)
        ok == {i \in 1..Len(cands) : Usable(cands[i].path)}
    IN IF ok = {} THEN 0 ELSE CHOOSE i \in ok : \A j \in ok : i <= j

\* C2 as amended: the record a search stores is the first candidate in search
\* order that passes the Version Gate, with the version its banner names,
\* whatever minimum the caller asked for, and no candidate after it is probed;
\* ConfirmedAbsent iff no candidate passes
C2_FirstUsableCandidateWins ==
    \A m \in Machines :
        (Constructed(m) /\ last.searched) =>
            LET i == FirstUsable(m) IN
            IF i = 0
            THEN /\ last.bin = False /\ last.vers = None /\ ConfirmedAbsent(m)
                 /\ last.probes = search(environment, m)
            ELSE /\ last.bin = search(environment, m)[i]
                 /\ last.probes = SubSeq(search(environment, m), 1, i)
                 /\ last.vers = Reported(last.bin.path)
                 /\ class_cmakebin[m] = last.bin
                 /\ class_cmakevers[m] = last.vers

\* candidates [old, new] with a minimum only new satisfies: the record is old
C2_Witness ==
    /\ Constructed("build") /\ last.searched
    /\ Len(last.probes) = 1
    /\ last.bin # False
    /\ world[last.bin.path] = Old
    /\ world[environment.default_cmake[2]] = New
    /\ last.min_version = "3.10"
    /\ class_cmakevers["build"] = Str(<<"3.9.0">>)

\* C3 as stated: a construction whose minimum the Resolved version does not
\* satisfy returns normally with found() false
C3_TooOldCompletesNotFound ==
    (last.op = "init" /\ last.bin # False /\ ~version_compare(last.vers, last.min_version))
        => (last.raised = "no" /\ last.cmakebin = None)

\* C4: with a configured entry for a machine, the only candidate ever handed
\* to check_cmake for it is the one built from the entry, and it is probed
\* exactly once by the construction that searches; when the entry does not pass
\* the Version Gate the record is ConfirmedAbsent and found() is false
C4_EntryIsAuthoritative ==
    \A m \in Machines :
        environment.entry[m] # NoEntry =>
            /\ \A i \in 1..Len(probed[m]) : probed[m][i] = Handle(environment.entry[m], "entry", m)
            /\ Len(probed[m]) <= 1
            /\ Constructed(m) =>
                 /\ Len(probed[m]) = 1
                 /\ ~Usable(environment.entry[m]) =>
                      /\ ConfirmedAbsent(m)
                      /\ last.raised = "no"
                      /\ last.cmakebin = None

\* the entry of the build machine points at a path that holds nothing, a
\* default would have passed, and the construction ended not found
C4_Witness ==
    /\ environment.entry["build"] # NoEntry
    /\ ~world[environment.entry["build"]].found
    /\ \E i \in 1..Len(environment.default_cmake) : Usable(environment.default_cmake[i])
    /\ Constructed("build")
    /\ probed["build"] = <<Handle(environment.entry["build"], "entry", "build")>>
    /\ ConfirmedAbsent("build")
    /\ last.cmakebin = None /\ last.raised = "no"

\* C5: each record is Unresolved, Resolved(handle, version) or ConfirmedAbsent;
\* a construction for a machine leaves its record Resolved or ConfirmedAbsent;
\* and a record that is not Unresolved never changes again
C5_RecordStateMachine ==
    /\ [](\A m \in Machines : Unresolved(m) \/ Resolved(m) \/ ConfirmedAbsent(m))
    /\ [](\A m \in Machines : Constructed(m) => ~Unresolved(m))
    /\ [][\A m \in Machines :
            ~Unresolved(m) =>
                /\ class_cmakebin'[m] = class_cmakebin[m]
                /\ class_cmakevers'[m] = class_cmakevers[m]]_vars

\* both terminal states are held at once, after three constructions
C5_Witness ==
    /\ Resolved("build") /\ ConfirmedAbsent("host")
    /\ Constructed("build") /\ ~last.searched

-----------------------------------------------------------------------------
(* Invocation claims, checked under Spec *)

\* the request of the last call or call_with_fake_build
LastRequest == Request(last.cmakebin, last.args, last.build_dir, last.env)

\* the pairs of the environment a request runs in
EnvPairs(env) ==
    LET e == IF env = None THEN os_environ ELSE env
    IN {e.items[i] : i \in 1..Len(e.items)}

\* two requests with the same binary, arguments, directory and environment
SameKey(q1, q2) ==
    /\ q1.bin = q2.bin /\ q1.args = q2.args /\ q1.build_dir = q2.build_dir
    /\ EnvPairs(q1.env) = EnvPairs(q2.env)

\* C6: over all the calls that go through the cache, the calls with one
\* identical (binary, args, dir, env) launch the process at most once, and
\* exactly once among the requests with the same key; a repeated identical call
\* launches nothing and returns the triple the first one returned, failed or not
C6_IdenticalCallRunsOnce ==
    /\ \A q \in DOMAIN served :
         /\ served[q].runs <= 1
         /\ \E q2 \in DOMAIN served : SameKey(q, q2) /\ served[q2].runs = 1
    /\ (last.op = "call" /\ ~last.disable_cache /\ last.again) =>
         /\ ~last.executed
         /\ last.ret = served[LastRequest].ret

\* a failed result replayed: the second identical call returns the non-zero
\* exit code and stderr of the first without a launch
C6_Witness ==
    /\ last.op = "call" /\ ~last.disable_cache /\ last.again
    /\ ~last.executed
    /\ last.ret.rc # 0 /\ last.ret.err # ""
    /\ served[LastRequest].runs = 1

\* C7: a call with disable_cache set launches the process and returns what
\* that launch returned, and the cache is the same before and after
C7_BypassLaunchesAndLeavesCache ==
    [][(ncalls' # ncalls /\ last'.op = "call" /\ last'.disable_cache) =>
          /\ last'.executed
          /\ last'.ret = last'.launch
          /\ class_cmake_cache' = class_cmake_cache]_vars

\* a bypassing call for a request the cache holds, returning a triple that
\* differs from the stored one
C7_Witness ==
    /\ last.op = "call" /\ last.disable_cache /\ last.executed
    /\ LastRequest \in DOMAIN served
    /\ served[LastRequest].ret # last.ret
    /\ \E key \in DOMAIN class_cmake_cache :
         class_cmake_cache[key] = served[LastRequest].ret

\* C8 as stated: a call_with_fake_build whose (args, dir, env) an earlier call
\* or call_with_fake_build already answered through the cache returns the
\* stored result and opens no file for writing and creates no directory
C8_CachedFakeBuildWritesNothing ==
    (last.op = "call_with_fake_build" /\ last.again) =>
        /\ last.ret = served[LastRequest].ret
        /\ last.opened = {}
        /\ last.created = {}

\* C9 as stated: call_with_fake_build never opens for writing a marker file
\* that exists
C9_ExistingMarkerNotRewritten ==
    last.op = "call_with_fake_build" =>
        marker_path(last.build_dir) \notin last.overwritten

\* C9 as amended: a call_with_fake_build that is not answered by its cache
\* test opens the marker file for writing whether or not it exists, and the
\* marker then holds the fixed line; one that is answered by the cache test
\* opens no file
C9_MarkerWrittenOnEveryStaging ==
    last.op = "call_with_fake_build" =>
        IF last.staged
        THEN /\ marker_path(last.build_dir) \in last.opened
             /\ fs[marker_path(last.build_dir)].c = MARKER
        ELSE last.opened = {}

\* a marker another tool left in b1 has been overwritten
C9_Witness ==
    /\ last.op = "call_with_fake_build" /\ last.staged
    /\ last.build_dir = "b1"
    /\ marker_path("b1") \in last.overwritten
    /\ fs[marker_path("b1")] = [c |-> MARKER, w |-> 1]

StubPaths ==
    {p \in FsPaths : p[Len(p)] \in {"CMakeCCompiler.cmake", "CMakeCXXCompiler.cmake"}}

\* C10: no call opens for writing a compiler stub that exists, so each stub
\* is written at most once, and never when it was there from the start
C10_ExistingStubNotRewritten ==
    /\ \A p \in StubPaths : fs[p].w <= 1
    /\ \A p \in StubPaths : StaleFs[p].c # "absent" => fs[p] = StaleFs[p]
    /\ last.op \in {"call", "call_with_fake_build"} => last.overwritten \cap StubPaths = {}

\* a second staging of the same directory and version: both stubs were written
\* by an earlier call and are left alone
C10_Witness ==
    /\ last.op = "call_with_fake_build" /\ last.staged
    /\ LET comp_dir == comp_dir_path(last.build_dir, last.cmakevers)
       IN /\ fs[c_comp_path(comp_dir)] = [c |-> C_STUB, w |-> 1]
          /\ fs[cxx_comp_path(comp_dir)] = [c |-> CXX_STUB, w |-> 1]
          /\ last.opened = {marker_path(last.build_dir)}

-----------------------------------------------------------------------------
(* The cache as a whole, checked under Spec *)

\* C11: the invocation cache is write-once per key: whatever call, bypassing
\* call or call_with_fake_build runs, every entry the cache holds is still
\* there afterwards with the same result
C11_CacheWriteOnce ==
    [][\A key \in DOMAIN class_cmake_cache :
          /\ key \in DOMAIN class_cmake_cache'
          /\ class_cmake_cache'[key] = class_cmake_cache[key]]_vars

\* a call stored a result and a bypassing call for the same request returned
\* another one: the cache still holds the one entry, with the first result
C11_Witness ==
    /\ ncalls = MaxCalls
    /\ Cardinality(DOMAIN class_cmake_cache) = 1
    /\ last.op = "call" /\ last.disable_cache
    /\ LastRequest \in DOMAIN served
    /\ \A key \in DOMAIN class_cmake_cache :
         /\ class_cmake_cache[key] = served[LastRequest].ret
         /\ class_cmake_cache[key] # last.ret

-----------------------------------------------------------------------------
(* More discovery claims, checked under SpecDiscovery *)

\* C12: for a machine that is not the build machine and has no configured
\* entry nothing is ever handed to check_cmake, and a construction for it
\* leaves the record ConfirmedAbsent and returns with found() false
C12_CrossWithoutEntryIsAbsent ==
    \A m \in Machines :
        (environment.entry[m] = NoEntry /\ ~environment.matches_build_machine[m]) =>
            /\ probed[m] = <<>>
            /\ Constructed(m) =>
                 /\ last.probes = <<>>
                 /\ ConfirmedAbsent(m)
                 /\ last.raised = "no"
                 /\ last.cmakebin = None

\* the host is a cross target without an entry, a default candidate would
\* have passed, and the construction for the host searched and found nothing
C12_Witness ==
    /\ environment.entry["host"] = NoEntry
    /\ ~environment.matches_build_machine["host"]
    /\ \E i \in 1..Len(environment.default_cmake) : Usable(environment.default_cmake[i])
    /\ Constructed("host") /\ last.searched
    /\ ConfirmedAbsent("host")
    /\ probed["host"] = <<>>


\* the candidate at path p is one the Version Gate rejects for one of: not
\* found, non-zero exit, FileNotFoundError at launch, PermissionError at launch
Rejected(p) ==
    \/ ~world[p].found
    \/ world[p].launch \in {"rc1", "FileNotFoundError", "PermissionError"}

\* C14: in a construction that searches, a candidate that is not found, exits
\* non-zero, is missing at launch or may not be executed never becomes the
\* record, and the candidate after it (if any) is probed; when every candidate
\* is rejected so, all were probed, the record is ConfirmedAbsent and the
\* constructor returns normally with found() false
C14_RejectionsAreAbsorbed ==
    \A m \in Machines :
        (Constructed(m) /\ last.searched) =>
            LET cands == search(environment, m) IN
            /\ \A i \in 1..Len(last.probes) :
                 Rejected(last.probes[i].path) =>
                    /\ last.bin # last.probes[i]
                    /\ i < Len(cands) => Len(last.probes) > i
            /\ (\A i \in 1..Len(cands) : Rejected(cands[i].path)) =>
                 /\ last.probes = cands
                 /\ ConfirmedAbsent(m)
                 /\ last.raised = "no"
                 /\ last.cmakebin = None

\* the two defaults are rejected, one for PermissionError and one for
\* FileNotFoundError at launch, and the construction ended not found
C14_Witness ==
    /\ Constructed("build") /\ last.searched
    /\ Len(last.probes) = 2
    /\ world[last.probes[1].path] = NotAllowed
    /\ world[last.probes[2].path] = Vanished
    /\ ConfirmedAbsent("build")
    /\ last.raised = "no" /\ last.cmakebin = None

\* C15: the candidates handed to check_cmake for a machine are a prefix of its
\* search order; when the record is Resolved with the k-th candidate, exactly
\* the first k were probed, in order, and none of the first k-1 passed
C15_ProbedInOrderUntilAccepted ==
    \A m \in Machines :
        LET cands == search(environment, m) IN
        /\ Len(probed[m]) <= Len(cands)
        /\ probed[m] = SubSeq(cands, 1, Len(probed[m]))
        /\ class_cmakebin[m] \notin {None, False} =>
             /\ Len(probed[m]) >= 1
             /\ class_cmakebin[m] = probed[m][Len(probed[m])]
             /\ \A j \in 1..(Len(probed[m]) - 1) : ~Usable(probed[m][j].path)

\* the first of two usable defaults was accepted and the second never probed
C15_Witness ==
    /\ environment.entry["build"] = NoEntry
    /\ Usable(environment.default_cmake[1]) /\ Usable(environment.default_cmake[2])
    /\ class_cmakebin["build"] = Handle(environment.default_cmake[1], "default", "build")
    /\ probed["build"] = <<Handle(environment.default_cmake[1], "default", "build")>>

\* C19: a construction for one machine leaves the binary and version slots
\* and the probe history of the other machine as they were, and whatever the
\* order of the constructions the record of a machine is the one its own
\* search gives: its first usable candidate, or not found
C19_MachinesAreIndependent ==
    /\ [][\A m \in Machines :
            (last' # last /\ Constructed(m)') =>
                \A o \in Machines \ {m} :
                    /\ class_cmakebin'[o] = class_cmakebin[o]
                    /\ class_cmakevers'[o] = class_cmakevers[o]
                    /\ probed'[o] = probed[o]]_vars
    /\ [](\A m \in Machines :
            class_cmakebin[m] # None =>
                class_cmakebin[m] = (IF FirstUsable(m) = 0 THEN False
                                     ELSE search(environment, m)[FirstUsable(m)]))

\* the host was resolved after the build machine, each to its own binary
C19_Witness ==
    /\ Constructed("host") /\ last.searched
    /\ class_cmakebin["build"] \notin {None, False}
    /\ class_cmakebin["host"] \notin {None, False}
    /\ class_cmakebin["build"].path # class_cmakebin["host"].path
    /\ class_cmakevers["build"] # class_cmakevers["host"]


-----------------------------------------------------------------------------
(* Sharing of cache entries and repeated staging, checked under Spec *)

\* the requests that went through the cache before the last call
Prior == IF last.again THEN DOMAIN served ELSE DOMAIN served \ {LastRequest}

\* the environment component of a request as the caller states it: unspecified,
\* or the set of pairs passed
EnvAsPassed(env) == IF env = None THEN None ELSE [k |-> "pairs", s |-> EnvPairs(env)]

\* the last operation went through the cache
ThroughCache ==
    /\ last.op \in {"call", "call_with_fake_build"}
    /\ ~last.disable_cache

\* C16 as stated: a call through the cache that returns a stored result was
\* preceded by a request equal in binary, arguments, directory and environment,
\* an unspecified environment being equal only to an unspecified one
C16_StoredOnlyForSameRequestAsPassed ==
    (ThroughCache /\ ~last.executed) =>
        \E q \in Prior :
            /\ q.bin = last.cmakebin /\ q.args = last.args
            /\ q.build_dir = last.build_dir
            /\ EnvAsPassed(q.env) = EnvAsPassed(last.env)

\* C16 as amended: a call through the cache returns a stored result exactly
\* when an earlier request had the same binary, arguments, directory and
\* environment pairs, the pairs of an unspecified environment being those of
\* os.environ and their order being immaterial; the result is that request's,
\* and the cache holds one entry per such class of requests
C16_StoredExactlyForSameEffectiveRequest ==
    /\ ThroughCache =>
         /\ ~last.executed <=> \E q \in Prior : SameKey(q, LastRequest)
         /\ \A q \in Prior : SameKey(q, LastRequest) => last.ret = served[q].ret
    /\ Cardinality(DOMAIN class_cmake_cache) =
         Cardinality({{q2 \in DOMAIN served : SameKey(q, q2)} : q \in DOMAIN served})

\* a call without env launched the process, and a call passing the pairs of
\* os.environ in another order got its result without a launch
C16_Witness ==
    /\ last.op = "call" /\ ~last.disable_cache
    /\ last.env = Dict(<<KV2, KV1>>)
    /\ ~last.again /\ ~last.executed
    /\ \E q \in Prior : q.env = None /\ SameKey(q, LastRequest) /\ served[q].runs = 1
    /\ Cardinality(DOMAIN class_cmake_cache) = 1

\* the marker file and the two stub files of the last call
StagedPaths(build_dir, cmakevers) ==
    {marker_path(build_dir),
     c_comp_path(comp_dir_path(build_dir, cmakevers)),
     cxx_comp_path(comp_dir_path(build_dir, cmakevers))}

\* C17 as stated: after a call_with_fake_build the marker file and both stub
\* files of its directory and version exist
C17_FilesExistAfterFakeBuild ==
    last.op = "call_with_fake_build" =>
        \A p \in StagedPaths(last.build_dir, last.cmakevers) : exists(fs, p)

\* the step is a call_with_fake_build that repeats the request of the
\* call_with_fake_build before it
RepeatsFakeBuild ==
    /\ ncalls' # ncalls
    /\ last.op = "call_with_fake_build" /\ last'.op = "call_with_fake_build"
    /\ last'.args = last.args /\ last'.build_dir = last.build_dir
    /\ last'.env = last.env /\ last'.cmakebin = last.cmakebin

\* C17 as amended: after a call_with_fake_build that was not answered by its
\* cache test the marker file holds the fixed line and both stub files exist,
\* and a second identical call_with_fake_build leaves the contents of the
\* three files as they were after the first
C17_StagedFilesExistAndKeepContents ==
    /\ [][RepeatsFakeBuild =>
            \A p \in StagedPaths(last.build_dir, last.cmakevers) : fs'[p].c = fs[p].c]_vars
    /\ []((last.op = "call_with_fake_build" /\ last.staged) =>
            /\ fs[marker_path(last.build_dir)].c = MARKER
            /\ \A p \in StagedPaths(last.build_dir, last.cmakevers) : exists(fs, p))

\* b2 staged twice by the same request: the marker was opened a second time
\* and holds the one fixed line; the stubs were written once
C17_Witness ==
    /\ last.op = "call_with_fake_build" /\ last.again /\ last.staged
    /\ last.build_dir = "b2"
    /\ fs[marker_path("b2")] = [c |-> MARKER, w |-> 2]
    /\ fs[c_comp_path(comp_dir_path("b2", last.cmakevers))] = [c |-> C_STUB, w |-> 1]
    /\ fs[cxx_comp_path(comp_dir_path("b2", last.cmakevers))] = [c |-> CXX_STUB, w |-> 1]

\* C18: a call_with_fake_build that repeats the request of the one before it,
\* env passed or not, launches no process and returns the triple the first
\* returned; over the two the process was launched at most once, and once
\* when the first launched it
C18_RepeatedFakeBuildRunsOnce ==
    [][RepeatsFakeBuild =>
          /\ ~last'.executed
          /\ last'.ret = last.ret
          /\ served'[LastRequest].runs <= 1
          /\ last.executed => served'[LastRequest].runs = 1]_vars

\* the second of two call_with_fake_build without env: it staged the
\* directory again but got the failed triple of the first from the cache
C18_Witness ==
    /\ last.op = "call_with_fake_build" /\ last.again
    /\ last.env = None /\ ~last.executed
    /\ fs[marker_path(last.build_dir)].w = 2
    /\ served[LastRequest].runs = 1
    /\ last.ret = served[LastRequest].ret /\ last.ret.rc # 0


-----------------------------------------------------------------------------
(* Constructors in threads, checked under SpecThreads *)

\* the threads that ran the search for machine m
Searchers(m) == {t \in Threads : threads[t].for_machine = m /\ threads[t].searched}

\* thread t got from find_cmake_binary a binary with no version
SawHalfWritten(t) ==
    /\ threads[t].pc \in {"init", "done"}
    /\ threads[t].raised # "AssertionError"
    /\ threads[t].bin \notin {None, False}
    /\ threads[t].vers = None

\* C13: without serialization the first write of a machine's record races. A
\* thread can return a binary with no version (and then raises TypeError in
\* version_compare) only if it did not search itself and another thread that
\* searched for the same machine wrote the binary; a machine's candidates are
\* probed once per thread that searched, each in search order, so probing is
\* duplicated exactly when two threads searched; the assert fails only when
\* another thread stored in between; and the half-written record is always
\* binary set with version unset, never the reverse
C13_RaceOutcomes ==
    /\ \A t \in Threads :
         SawHalfWritten(t) =>
            /\ ~threads[t].searched
            /\ \E u \in Searchers(threads[t].for_machine) \ {t} :
                  threads[u].potential_cmakebin = threads[t].bin
            /\ threads[t].pc = "done" => threads[t].raised = "TypeError"
    /\ \A t \in Threads :
         threads[t].raised = "AssertionError" =>
            Searchers(threads[t].for_machine) \ {t} # {}
    /\ \A t \in Threads :
         LET cands == search(environment, threads[t].for_machine) IN
         /\ Len(threads[t].probes) <= Len(cands)
         /\ threads[t].probes = SubSeq(cands, 1, Len(threads[t].probes))
    /\ \A m \in Machines :
         /\ Len(probed[m]) <= Cardinality(Searchers(m)) * Len(search(environment, m))
         /\ Cardinality(Searchers(m)) <= 1 =>
              \A i, j \in 1..Len(probed[m]) : probed[m][i] = probed[m][j] => i = j
         /\ class_cmakevers[m] # None => class_cmakebin[m] \notin {None, False}

\* t1 and t2 both searched for the build machine and probed the same
\* candidate, and t3 returned the binary one of them had stored with the
\* version slot still unset
C13_Witness ==
    /\ Searchers("build") = {"t1", "t2"}
    /\ \E i, j \in 1..Len(probed["build"]) : i # j /\ probed["build"][i] = probed["build"][j]
    /\ threads["t1"].probes = threads["t2"].probes
    /\ threads["t3"].for_machine = "build"
    /\ SawHalfWritten("t3")
    /\ threads["t3"].pc = "done" /\ threads["t3"].raised = "TypeError"

====
